---- MODULE Spec2Model ----
(***************************************************************************)
(* Konserve archive engine: backup_gui (src/src/backup.rs), restore_backup *)
(* (src/src/restore.rs) and the preview helpers parse_fingerprint,         *)
(* build_human_tree, adjust_path (src/src/helpers.rs).                     *)
(*                                                                         *)
(* Text is modelled character by character: a string is a sequence of      *)
(* one-character strings, so formatting, parsing, prefix tests and path    *)
(* joins are computed the way the code computes them.  Paths follow the    *)
(* Windows rules of std::path (both '\' and '/' separate components, '\'   *)
(* is the separator that join inserts).                                    *)
(*                                                                         *)
(* Spec is a backup followed by a preview and a restore of the archive;    *)
(* BackupSpec is the backup alone; WorkerSpec is the Create Backup worker  *)
(* thread of src/src/main.rs with its gzip step and its progress bar,      *)
(* WorkerFairSpec the same under fair scheduling; AdjustSpec is            *)
(* adjust_path applied to a set of paths; GuiSpec is a backup followed by  *)
(* the restore screens of the GUI, PreviewSpec its part up to the user's   *)
(* decision on the selection screen and PreviewFairSpec that part under    *)
(* fair scheduling; PickSpec is the filling of the list of backup inputs.  *)
(***************************************************************************)
EXTENDS Integers, Sequences, FiniteSets, TLC

(***************************************************************************)
(* Bounds                                                                  *)
(***************************************************************************)
MaxInputs == 2
MaxSel == 2

(***************************************************************************)
(* Strings                                                                 *)
(***************************************************************************)
Range(s) == {s[i] : i \in 1..Len(s)}

StartsWith(s, p) == Len(p) <= Len(s) /\ SubSeq(s, 1, Len(p)) = p

EndsWith(s, p) == Len(p) <= Len(s) /\ SubSeq(s, Len(s) - Len(p) + 1, Len(s)) = p

Drop(s, n) == SubSeq(s, n + 1, Len(s))

\* str::find: index of the first occurrence of p in s, 0 when there is none
Find(s, p) ==
    LET hits == {i \in 1..(Len(s) - Len(p) + 1) : SubSeq(s, i, i + Len(p) - 1) = p}
    IN IF hits = {} THEN 0 ELSE CHOOSE i \in hits : \A j \in hits : i <= j

\* str::rfind for one character
RFindChar(s, c) ==
    LET hits == {i \in 1..Len(s) : s[i] = c}
    IN IF hits = {} THEN 0 ELSE CHOOSE i \in hits : \A j \in hits : j <= i

Contains(s, p) == Find(s, p) # 0

\* str::split_once: the text before and after the first occurrence of p
SplitOnce(s, p) ==
    LET i == Find(s, p)
    IN <<SubSeq(s, 1, i - 1), Drop(s, i + Len(p) - 1)>>

RECURSIVE Split(_, _)
\* str::split on one character
Split(s, c) ==
    LET i == Find(s, <<c>>)
    IN IF i = 0 THEN <<s>> ELSE <<SubSeq(s, 1, i - 1)>> \o Split(Drop(s, i), c)

RECURSIVE JoinWith(_, _)
\* [String]::join
JoinWith(parts, sep) ==
    IF parts = <<>> THEN <<>>
    ELSE IF Len(parts) = 1 THEN parts[1]
    ELSE parts[1] \o sep \o JoinWith(Tail(parts), sep)

White == {" ", "\t", "\r", "\n"}

RECURSIVE TrimStart(_)
TrimStart(s) == IF s # <<>> /\ s[1] \in White THEN TrimStart(Tail(s)) ELSE s

RECURSIVE TrimEnd(_)
TrimEnd(s) ==
    IF s # <<>> /\ s[Len(s)] \in White THEN TrimEnd(SubSeq(s, 1, Len(s) - 1)) ELSE s

\* str::trim
Trim(s) == TrimEnd(TrimStart(s))

\* str::lines: split at '\n', no final empty line, a trailing '\r' removed
Lines(s) ==
    LET raw == Split(s, "\n")
        cut == IF raw[Len(raw)] = <<>> THEN SubSeq(raw, 1, Len(raw) - 1) ELSE raw
    IN [i \in 1..Len(cut) |->
          IF cut[i] # <<>> /\ cut[i][Len(cut[i])] = "\r"
          THEN SubSeq(cut[i], 1, Len(cut[i]) - 1) ELSE cut[i]]

\* str::trim_end_matches('/')
RECURSIVE TrimEndSlash(_)
TrimEndSlash(s) ==
    IF s # <<>> /\ s[Len(s)] = "/" THEN TrimEndSlash(SubSeq(s, 1, Len(s) - 1)) ELSE s

LowerChar(c) ==
    CASE c = "C" -> "c" [] c = "U" -> "u" [] c = "P" -> "p" [] c = "F" -> "f"
      [] c = "R" -> "r" [] c = "E" -> "e" [] c = "B" -> "b" [] c = "I" -> "i"
      [] c = "D" -> "d" [] c = "K" -> "k" [] c = "X" -> "x" [] OTHER -> c

\* str::to_lowercase
ToLower(s) == [i \in 1..Len(s) |-> LowerChar(s[i])]

\* restore.rs canon: every backslash becomes a forward slash
canon(s) == [i \in 1..Len(s) |-> IF s[i] = "\\" THEN "/" ELSE s[i]]

(***************************************************************************)
(* std::path                                                               *)
(***************************************************************************)
Seps == {"\\", "/"}
MainSep == <<"\\">>

RECURSIVE StripSeps(_)
StripSeps(p) ==
    IF p # <<>> /\ p[Len(p)] \in Seps THEN StripSeps(SubSeq(p, 1, Len(p) - 1)) ELSE p

LastSep(p) ==
    LET hits == {i \in 1..Len(p) : p[i] \in Seps}
    IN IF hits = {} THEN 0 ELSE CHOOSE i \in hits : \A j \in hits : j <= i

\* Path::file_name: the last component (trailing separators do not count)
FileName(p) == LET q == StripSeps(p) IN Drop(q, LastSep(q))

\* Path::parent().unwrap_or(path) for a path of at least two components below
\* the drive root: the text before the separator of the last component
Parent(p) ==
    LET q == StripSeps(p)
        i == LastSep(q)
    IN IF i = 0 THEN p ELSE SubSeq(q, 1, i - 1)

\* Path::extension: the text after the last '.' of the file name; none when
\* the name has no '.', or only a leading one
HasExtension(p) ==
    LET n == FileName(p) IN n # <<".", ".">> /\ RFindChar(n, ".") > 1

Extension(p) == LET n == FileName(p) IN Drop(n, RFindChar(n, "."))

\* Path::join / PathBuf::push for a relative second path: a separator is
\* added whenever the base does not end in one, also when rel is empty
PathJoin(base, rel) ==
    IF base # <<>> /\ base[Len(base)] \in Seps THEN base \o rel
    ELSE base \o MainSep \o rel

RECURSIVE PathComponents(_)
\* Path::components of a relative path: the non-empty pieces between separators
PathComponents(p) ==
    LET hits == {i \in 1..Len(p) : p[i] \in Seps}
        i == IF hits = {} THEN 0 ELSE CHOOSE k \in hits : \A j \in hits : k <= j
        first == IF i = 0 THEN p ELSE SubSeq(p, 1, i - 1)
        rest == IF i = 0 THEN <<>> ELSE PathComponents(Drop(p, i))
    IN IF p = <<>> THEN <<>>
       ELSE IF first = <<>> THEN rest ELSE <<first>> \o rest

\* Path::strip_prefix(root component): the text after the first component and
\* the separators that follow it
RECURSIVE StripLeadingSeps(_)
StripLeadingSeps(p) == IF p # <<>> /\ p[1] \in Seps THEN StripLeadingSeps(Tail(p)) ELSE p

StripRoot(p, root) == StripLeadingSeps(Drop(p, Len(root)))

\* equality of std::path::Path values: component by component
SamePath(p, q) == PathComponents(p) = PathComponents(q)

(***************************************************************************)
(* The file system that backup_gui reads.  Every top-level candidate is an *)
(* absolute path with what lies at it: a regular file, a directory with    *)
(* its descendants (rel is the list of components below the directory), a  *)
(* symbolic link to a regular file, or nothing at all.  The candidates are  *)
(* listed in the order in which PathBuf sorts them.  The first is an empty *)
(* folder whose name has an extension.                                     *)
(***************************************************************************)
UsersDir == <<"C", ":", "\\", "U", "s", "e", "r", "s">>
OldHome == UsersDir \o <<"\\", "o">>
PDir == <<"C", ":", "\\", "P">>

Candidates ==
    << [path |-> PDir \o <<"\\", "E", ".", "d">>, kind |-> "dir", sub |-> {}],
       [path |-> PDir \o <<"\\", "R">>, kind |-> "file", sub |-> {}],
       [path |-> PDir \o <<"\\", "g">>, kind |-> "missing", sub |-> {}],
       [path |-> PDir \o <<"\\", "l", ".", "t">>, kind |-> "symlink", sub |-> {}],
       [path |-> OldHome \o <<"\\", "F">>, kind |-> "dir",
        sub |-> { [rel |-> << <<"a", ".", "t">> >>, kind |-> "file"],
                  [rel |-> << <<"s">> >>, kind |-> "dir"],
                  [rel |-> << <<"s">>, <<"b", ".", "t">> >>, kind |-> "file"],
                  [rel |-> << <<"e">> >>, kind |-> "dir"] }],
       [path |-> OldHome \o <<"\\", "r", ".", "d">>, kind |-> "file", sub |-> {}] >>

NumCand == Len(Candidates)

\* the input lists handed to backup_gui: sorted, without duplicates
InputLists ==
    {s \in UNION {[1..n -> 1..NumCand] : n \in 1..MaxInputs} :
        \A i \in 1..(Len(s) - 1) : s[i] < s[i + 1]}

\* Path::is_file follows symbolic links
is_file(c) == c.kind \in {"file", "symlink"}

\* variant of CountedFiles that counts every entry of the walk, the
\* directories among them
CountedFiles_WithDirs(c) ==
    CASE c.kind = "file" -> 1
      [] c.kind = "dir" -> 1 + Cardinality(c.sub)
      [] OTHER -> 0

\* walkdir's DirEntry::file_type().is_file() does not follow them: the entries
\* of WalkDir::new(c.path) that the pre-count keeps
CountedFiles(c) ==
    CASE c.kind = "file" -> 1
      [] c.kind = "dir" -> Cardinality({n \in c.sub : n.kind = "file"})
      [] OTHER -> 0

RECURSIVE SumCounted(_, _)
SumCounted(ins, i) ==
    IF i > Len(ins) THEN 0 ELSE CountedFiles(Candidates[ins[i]]) + SumCounted(ins, i + 1)

Max(a, b) == IF a >= b THEN a ELSE b

\* total_files: the file entries of a walk of every input, at least 1
TotalFiles(ins) == Max(SumCounted(ins, 1), 1)

IsPrefixSeq(d, r) == Len(d) <= Len(r) /\ SubSeq(r, 1, Len(d)) = d

RECURSIVE WalkCursor(_, _, _)
\* the entries WalkDir may yield next, depth first: the unvisited children of
\* the deepest directory on the path to the last entry that still has some
WalkCursor(c, seen, d) ==
    LET kids == {n \in c.sub : Len(n.rel) = Len(d) + 1 /\ IsPrefixSeq(d, n.rel)
                               /\ n.rel \notin Range(seen)}
    IN IF kids # {} THEN {n.rel : n \in kids}
       ELSE IF d = <<>> THEN {}
       ELSE WalkCursor(c, seen, SubSeq(d, 1, Len(d) - 1))

\* WalkDir::new(c.path).into_iter().filter_map(Result::ok): the root first; a
\* path that does not exist yields only an error, which is dropped
NextWalk(c, seen) ==
    IF c.kind # "dir" THEN {}
    ELSE IF seen = <<>> THEN {<<>>}
    ELSE WalkCursor(c, seen, seen[Len(seen)])

\* the Err items of WalkDir::new(c.path), which filter_map(Result::ok) drops
\* in the pre-count and in the walk: one for a root that cannot be read
WalkErrors(c) == IF c.kind = "missing" THEN 1 ELSE 0

WalkKind(c, rel) ==
    IF rel = <<>> THEN "dir" ELSE (CHOOSE n \in c.sub : n.rel = rel).kind

(***************************************************************************)
(* Manifest and entry names written by backup_gui                          *)
(***************************************************************************)
Marker == <<"D", "F">>
NL == <<"\n">>
BackupInfo == <<"[", "B", "a", "c", "k", "u", "p", " ", "I", "n", "f", "o", "]">>
ManifestName == <<"f", "i", "n", "g", "e", "r", "p", "r", "i", "n", "t", ".", "t", "x", "t">>
Digits == <<"1", "2", "3", "4", "5", "6", "7", "8", "9">>

get_fingered == Marker

\* Uuid::new_v4 for the i-th input: a fresh token, the same length for all
Uuid(i) == <<"u", Digits[i]>>

\* folder_uuid: one (uuid, path) pair per input, in input order
FolderUuid(ins) == [i \in 1..Len(ins) |-> <<Uuid(i), Candidates[ins[i]].path>>]

RECURSIVE MappingLines_Colon(_, _)
\* variant of MappingLines that writes "<token>:<path>" without the space
MappingLines_Colon(pairs, i) ==
    IF i > Len(pairs) THEN <<>>
    ELSE pairs[i][1] \o <<":">> \o pairs[i][2] \o NL \o MappingLines_Colon(pairs, i + 1)

RECURSIVE MappingLines(_, _)
\* the "<token>: <path>" lines of the manifest, one per input
MappingLines(pairs, i) ==
    IF i > Len(pairs) THEN <<>>
    ELSE pairs[i][1] \o <<":", " ">> \o pairs[i][2] \o NL \o MappingLines(pairs, i + 1)

FingerprintContent(pairs) ==
    get_fingered \o NL \o BackupInfo \o NL \o MappingLines(pairs, 1)

ManifestEntry(pairs) ==
    [name |-> ManifestName, kind |-> "file", data |-> FingerprintContent(pairs)]

\* variant of LoneEntryName that appends ".<ext>" whether or not there is one
LoneEntryName_AlwaysDot(uuid, path) == uuid \o <<".">> \o Extension(path)

\* the entry name of a lone file
LoneEntryName(uuid, path) ==
    IF HasExtension(path) THEN uuid \o <<".">> \o Extension(path) ELSE uuid

\* variant of TarEntryPath that names the entries below a folder by their
\* relative path alone
TarEntryPath_NoRoot(uuid, rel) ==
    IF rel = <<>> THEN uuid \o <<"/">> ELSE JoinWith(rel, <<"/">>)

\* Path::new(uuid).join(relative_path) as the tar header stores it: the
\* components joined by '/', and a final '/' when the joined path ends in a
\* separator (the root of the walk, whose relative path is empty)
TarEntryPath(uuid, rel) ==
    LET joined == PathJoin(uuid, JoinWith(rel, MainSep))
    IN JoinWith(PathComponents(joined), <<"/">>)
         \o (IF joined[Len(joined)] \in Seps THEN <<"/">> ELSE <<>>)

(***************************************************************************)
(* Reading an archive: parse_fingerprint, build_human_tree, adjust_path    *)
(***************************************************************************)
EmptyMap == [k \in {} |-> <<>>]

\* HashMap::insert
MapInsert(m, k, v) == [x \in DOMAIN m \cup {k} |-> IF x = k THEN v ELSE m[x]]

RECURSIVE ParseLines(_, _, _)
\* the lines that contain ": ", split at the first ": ", the path trimmed
ParseLines(lines, i, m) ==
    IF i > Len(lines) THEN m
    ELSE IF Contains(lines[i], <<":", " ">>)
         THEN LET kv == SplitOnce(lines[i], <<":", " ">>)
              IN ParseLines(lines, i + 1, MapInsert(m, kv[1], Trim(kv[2])))
         ELSE ParseLines(lines, i + 1, m)

\* position of the first entry named fingerprint.txt, 0 when there is none
FingerprintIndex(arch) ==
    LET hits == {i \in 1..Len(arch) : arch[i].name = ManifestName}
    IN IF hits = {} THEN 0 ELSE CHOOSE i \in hits : \A j \in hits : i <= j

RECURSIVE EntryNames(_, _)
\* phase 2 of parse_fingerprint: every entry name but fingerprint.txt
EntryNames(arch, i) ==
    IF i > Len(arch) THEN <<>>
    ELSE IF arch[i].name # ManifestName THEN <<arch[i].name>> \o EntryNames(arch, i + 1)
    ELSE EntryNames(arch, i + 1)

\* parse_fingerprint: (entries, path_map)
parse_fingerprint(arch) ==
    LET f == FingerprintIndex(arch)
        m == IF f = 0 THEN EmptyMap ELSE ParseLines(Lines(arch[f].data), 1, EmptyMap)
    IN <<EntryNames(arch, 1), m>>

DefaultNode == [is_file |-> FALSE, checked |-> FALSE]

\* FolderTreeNode::default() as a tree: the root alone, reached by no name
EmptyTree == [p \in {<<>>} |-> DefaultNode]

\* children.entry(name).or_insert_with(FolderTreeNode::default); a tree is the
\* map from the names on the way to a node to the node's fields
EnsureNode(t, p) ==
    IF p \in DOMAIN t THEN t
    ELSE [q \in DOMAIN t \cup {p} |-> IF q = p THEN DefaultNode ELSE t[q]]

RECURSIVE Descend(_, _, _, _)
\* the cursor loop over rest.split('/')
Descend(t, base, parts, i) ==
    IF i > Len(parts) THEN t
    ELSE Descend(EnsureNode(t, base \o SubSeq(parts, 1, i)), base, parts, i + 1)

RECURSIVE AddEntries(_, _, _, _, _)
\* the loop over the entries below dir_prefix
AddEntries(t, item, entries, dir_prefix, i) ==
    IF i > Len(entries) THEN t
    ELSE IF ~StartsWith(entries[i], dir_prefix)
         THEN AddEntries(t, item, entries, dir_prefix, i + 1)
         ELSE LET rest == TrimEndSlash(Drop(entries[i], Len(dir_prefix)))
                  parts == Split(rest, "/")
                  t1 == Descend(t, item, parts, 1)
              IN IF rest = <<>>
                 THEN AddEntries(t, item, entries, dir_prefix, i + 1)
                 ELSE AddEntries([t1 EXCEPT ![item \o parts].is_file = TRUE],
                                 item, entries, dir_prefix, i + 1)

\* one iteration of build_human_tree's loop over path_map
AddToken(t, entries, uuid, original_path) ==
    LET parent_label == Parent(original_path)
        item_name == FileName(original_path)
        item == <<parent_label, item_name>>
        t1 == EnsureNode(EnsureNode(t, <<parent_label>>), item)
        dir_prefix == uuid \o <<"/">>
        is_dir_backup == \E i \in 1..Len(entries) : StartsWith(entries[i], dir_prefix)
    IN IF is_dir_backup
       THEN AddEntries([t1 EXCEPT ![item].is_file = FALSE], item, entries, dir_prefix, 1)
       ELSE [t1 EXCEPT ![item].is_file = TRUE]

RECURSIVE BuildFrom(_, _, _, _, _)
BuildFrom(t, entries, path_map, order, i) ==
    IF i > Len(order) THEN t
    ELSE BuildFrom(AddToken(t, entries, order[i], path_map[order[i]]),
                   entries, path_map, order, i + 1)

\* build_human_tree, with the order in which the HashMap yields its pairs
build_human_tree(entries, path_map, order) ==
    BuildFrom(EmptyTree, entries, path_map, order, 1)

\* the orders a HashMap may be iterated in
Orders(S) ==
    {f \in [1..Cardinality(S) -> S] : \A i, j \in 1..Cardinality(S) : f[i] = f[j] => i = j}

\* main.rs check_all: every node checked
check_all(t) == [p \in DOMAIN t |-> [t[p] EXCEPT !.checked = TRUE]]

\* the path.join("/") of render_tree and collect_recursive
HumanPath(p) == JoinWith(p, <<"/">>)

HasChildren(t, p) == \E q \in DOMAIN t : Len(q) = Len(p) + 1 /\ IsPrefixSeq(p, q)

\* collect_paths: the joined names of the checked nodes with is_file
collect_paths(t) == {HumanPath(p) : p \in {q \in DOMAIN t : t[q].is_file /\ t[q].checked}}

UsersPrefixLower == <<"c", ":", "\\", "u", "s", "e", "r", "s", "\\">>

\* dirs::home_dir() of the restoring session
current_home == UsersDir \o <<"\\", "n">>

adjust_path(original, cur) ==
    IF StartsWith(ToLower(original), UsersPrefixLower)
    THEN LET parts == Split(original, "\\")
             expected_prefix == UsersDir \o <<"\\">> \o parts[3]
         IN IF Len(parts) > 2 /\ StartsWith(original, expected_prefix)
            THEN cur \o Drop(original, Len(expected_prefix))
            ELSE original
    ELSE original

(***************************************************************************)
(* restore_backup                                                          *)
(***************************************************************************)
\* variant of ValidFingerprint that wants the marker at the start of the text
ValidFingerprint_Prefix(arch) ==
    LET f == FingerprintIndex(arch)
    IN f # 0 /\ StartsWith(arch[f].data, get_fingered)

\* variant of ValidFingerprint that accepts any fingerprint.txt, marker or not
ValidFingerprint_AnyContent(arch) == FingerprintIndex(arch) # 0

\* restore.rs 72-93: the first fingerprint.txt is read and must contain the marker
ValidFingerprint(arch) ==
    LET f == FingerprintIndex(arch)
    IN f # 0 /\ Contains(arch[f].data, get_fingered)

RECURSIVE ParseLinesAtColon(_, _, _)
\* for RestorePathMap_AtColon: the lines that contain ':', split at the first
\* ':', the path as it stands
ParseLinesAtColon(lines, i, m) ==
    IF i > Len(lines) THEN m
    ELSE IF Contains(lines[i], <<":">>)
         THEN LET kv == SplitOnce(lines[i], <<":">>)
              IN ParseLinesAtColon(lines, i + 1, MapInsert(m, kv[1], kv[2]))
         ELSE ParseLinesAtColon(lines, i + 1, m)

\* variant of RestorePathMap that splits at ':' and does not trim the path
RestorePathMap_AtColon(arch) ==
    ParseLinesAtColon(Lines(arch[FingerprintIndex(arch)].data), 1, EmptyMap)

\* restore.rs 86-89
RestorePathMap(arch) ==
    ParseLines(Lines(arch[FingerprintIndex(arch)].data), 1, EmptyMap)

\* restore.rs 107-109: "<parent>/<item>" of a manifest path
BaseOf(orig) == canon(Parent(orig)) \o <<"/">> \o FileName(orig)

\* variant of ToExtract that leaves out the "<token>.<ext>" names
ToExtract_NoExt(sel, path_map) ==
    LET human_sel == {canon(h) : h \in sel}
        exact == UNION {
            IF BaseOf(path_map[u]) \in human_sel THEN {u} ELSE {}
            : u \in DOMAIN path_map}
        nested == UNION {
            {u \o <<"/">> \o Drop(h, Len(BaseOf(path_map[u])) + 1) :
                h \in {x \in human_sel : StartsWith(x, BaseOf(path_map[u]) \o <<"/">>)}}
            : u \in DOMAIN path_map}
    IN exact \cup nested

\* variant of ToExtract whose nested rule strips "<parent>/<item>" without the
\* '/' that ends it
ToExtract_PrefixNoSlash(sel, path_map) ==
    LET human_sel == {canon(h) : h \in sel}
        exact == UNION {
            IF BaseOf(path_map[u]) \in human_sel
            THEN {u} \cup (IF HasExtension(path_map[u])
                           THEN {u \o <<".">> \o Extension(path_map[u])} ELSE {})
            ELSE {} : u \in DOMAIN path_map}
        nested == UNION {
            {u \o <<"/">> \o Drop(h, Len(BaseOf(path_map[u]))) :
                h \in {x \in human_sel : StartsWith(x, BaseOf(path_map[u]))
                                            /\ x # BaseOf(path_map[u])}}
            : u \in DOMAIN path_map}
    IN exact \cup nested

\* variant of ToExtract that compares the selected strings as given, without canon
ToExtract_NoCanon(sel, path_map) ==
    LET human_sel == sel
        exact == UNION {
            IF BaseOf(path_map[u]) \in human_sel
            THEN {u} \cup (IF HasExtension(path_map[u])
                           THEN {u \o <<".">> \o Extension(path_map[u])} ELSE {})
            ELSE {} : u \in DOMAIN path_map}
        nested == UNION {
            {u \o <<"/">> \o Drop(h, Len(BaseOf(path_map[u])) + 1) :
                h \in {x \in human_sel : StartsWith(x, BaseOf(path_map[u]) \o <<"/">>)}}
            : u \in DOMAIN path_map}
    IN exact \cup nested

\* restore.rs 101-128: the names to extract for a selection
ToExtract(sel, path_map) ==
    LET human_sel == {canon(h) : h \in sel}
        exact == UNION {
            IF BaseOf(path_map[u]) \in human_sel
            THEN {u} \cup (IF HasExtension(path_map[u])
                           THEN {u \o <<".">> \o Extension(path_map[u])} ELSE {})
            ELSE {} : u \in DOMAIN path_map}
        nested == UNION {
            {u \o <<"/">> \o Drop(h, Len(BaseOf(path_map[u])) + 1) :
                h \in {x \in human_sel : StartsWith(x, BaseOf(path_map[u]) \o <<"/">>)}}
            : u \in DOMAIN path_map}
    IN exact \cup nested

\* restore.rs 130-153: the entries counted for the percentage, at least 1
RestoreTotal(arch, selected, to_extract) ==
    Max(Cardinality({i \in 1..Len(arch) :
            /\ arch[i].kind \in {"file", "dir"}
            /\ (selected.some => arch[i].name \in to_extract)}), 1)

\* first component of an entry path
RootComponent(name) == PathComponents(name)[1]

\* where restore_backup unpacks an entry, <<>> when no case handles it
UnpackTo(name, path_map) ==
    LET root == RootComponent(name)
    IN IF root \in DOMAIN path_map
       THEN PathJoin(adjust_path(path_map[root], current_home), StripRoot(name, root))
       ELSE IF Contains(root, <<".">>)
               /\ SplitOnce(root, <<".">>)[1] \in DOMAIN path_map
       THEN adjust_path(path_map[SplitOnce(root, <<".">>)[1]], current_home)
       ELSE <<>>

\* Entry::unpack of a file entry opens the destination with create_new; a
\* destination that ends in a separator names a directory and the open fails
UnpackFails(entry, dst) == entry.kind = "file" /\ dst[Len(dst)] \in Seps

\* archives a restore may be pointed at: the one written, the same without
\* its fingerprint.txt, the same with a foreign marker, and one put together
\* by other means: the marker stands inside the first line of fingerprint.txt
\* and entries follow whose names carry no token of the manifest
Garbage == <<"X", "X">>

WithoutManifest(arch) == SubSeq(arch, 2, Len(arch))

WithGarbageMarker(arch) ==
    [arch EXCEPT ![1].data = Garbage \o Drop(arch[1].data, Len(get_fingered))]

WithMarkerInside(arch) == [arch EXCEPT ![1].data = <<"X">> \o arch[1].data]

ForeignEntries ==
    << [name |-> <<"v", "9", ".", "t">>, kind |-> "file", data |-> <<>>],
       [name |-> <<"w">>, kind |-> "file", data |-> <<>>] >>

Foreign(arch) == WithMarkerInside(arch) \o ForeignEntries

SourceArchives(arch) ==
    {arch, WithoutManifest(arch), WithGarbageMarker(arch), Foreign(arch)}

None == [some |-> FALSE, paths |-> {}]

Some(S) == [some |-> TRUE, paths |-> S]

\* a string that names nothing in any archive, though it begins like the
\* path of the candidate C:\P\R
Stray == PDir \o <<"\\", "R", "x">>

\* the strings a selection is drawn from: every node of the preview tree below
\* the parent labels, and one string that names nothing in the archive
SelUniverse(t) == {HumanPath(p) : p \in {q \in DOMAIN t : Len(q) >= 2}} \cup {Stray}

Selections(t) ==
    {None} \cup {Some(S) : S \in {X \in SUBSET SelUniverse(t) : Cardinality(X) <= MaxSel}}

(***************************************************************************)
(* State                                                                   *)
(***************************************************************************)
VARIABLES
    inputs,        \* folders: the input list of the backup run
    bpc,           \* position of backup_gui
    archive,       \* the entries appended to the tar builder so far
    idx,           \* the input the population loop is at
    walked,        \* the entries WalkDir has yielded for that input
    total_files,   \* backup_gui's total_files
    done,          \* backup_gui's done
    progress,      \* the Progress cell of each operation
    stores,        \* every value stored in each cell, in order
    src,           \* the archive opened for preview and restore
    tree,          \* restore_tree of the GUI
    rpc,           \* position of the preview / restore_backup
    selected,      \* restore_backup's selected
    path_map,      \* restore_backup's path_map
    to_extract,    \* restore_backup's to_extract
    rtotal_files,  \* restore_backup's total_files
    rdone,         \* restore_backup's done
    rpos,          \* the entry the extraction loop is at
    writes,        \* the entries unpacked to disk, in order
    mkdirs,        \* the directories made by create_dir_all
    fault,         \* an I/O operation was failed by the environment
    preview_map,   \* the path_map parse_fingerprint handed to build_human_tree
    rresult,       \* what restore_backup returned, <<>> while it has not
    compression_enabled, \* the GUI's compression switch, copied by the worker
    wpc,           \* position of the Create Backup worker thread
    status,        \* the status line the worker leaves
    tar_on_disk,   \* the uncompressed archive exists in the output directory
    gzip_calls,    \* the codes returned by the calls of konserve_gzip_tar
    original,      \* adjust_path's original
    home,          \* adjust_path's current_home
    adjusted,      \* adjust_path's result, <<>> before the call
    selected_folders, \* GUIApp.selected_folders
    backup_progress,  \* GUIApp.backup_progress is Some
    restore_progress, \* GUIApp.restore_progress is Some
    restore_opening,  \* GUIApp.restore_opening
    restore_rx,       \* GUIApp.restore_rx: "None" or "Some"
    restore_msg,      \* the RestoreMsg sent on the channel, <<>> while there is none
    restore_editor    \* GUIApp.restore_editor

bvars == <<inputs, bpc, archive, idx, walked, total_files, done>>
rvars == <<src, tree, rpc, selected, path_map, to_extract, rtotal_files, rdone, rpos, writes, mkdirs,
           preview_map, rresult>>
wvars == <<compression_enabled, wpc, status, tar_on_disk, gzip_calls>>
avars == <<original, home, adjusted>>
gvars == <<selected_folders, backup_progress, restore_progress, restore_opening,
           restore_rx, restore_msg, restore_editor>>
vars == <<inputs, bpc, archive, idx, walked, total_files, done, progress, stores,
          src, tree, rpc, selected, path_map, to_extract, rtotal_files, rdone, rpos,
          writes, mkdirs, fault, preview_map, rresult,
          compression_enabled, wpc, status, tar_on_disk, gzip_calls,
          original, home, adjusted,
          selected_folders, backup_progress, restore_progress, restore_opening,
          restore_rx, restore_msg, restore_editor>>

\* Progress::set on the cell of operation op
ProgressSet(op, pct) ==
    /\ progress' = [progress EXCEPT ![op] = pct]
    /\ stores' = [stores EXCEPT ![op] = Append(@, pct)]

\* Result<_, String>: Ok, or Err with its message; <<>> stands for no return yet
Ok == <<"Ok">>

Err(e) == <<"Err", e>>

InvalidFingerprint == "Invalid backup fingerprint."

\* the text of an io::Error, whatever it is
IoErrorText == "io error"

\* no Create Backup worker thread: backup_gui is called directly
WorkerOff ==
    /\ compression_enabled = FALSE
    /\ wpc = "off"
    /\ status = <<>>
    /\ tar_on_disk = FALSE
    /\ gzip_calls = <<>>

\* no call of adjust_path on its own
AdjustOff ==
    /\ original = <<>>
    /\ home = <<>>
    /\ adjusted = <<>>

\* GUIApp::default (main.rs 208-220): nothing selected, no handle, no channel
GuiOff ==
    /\ selected_folders = <<>>
    /\ backup_progress = FALSE
    /\ restore_progress = FALSE
    /\ restore_opening = FALSE
    /\ restore_rx = "None"
    /\ restore_msg = <<>>
    /\ restore_editor = FALSE

\* the state before backup_gui and restore_backup are called
Idle ==
    /\ bpc = "start"
    /\ archive = <<>>
    /\ idx = 1
    /\ walked = <<>>
    /\ total_files = 0
    /\ done = 0
    /\ progress = [backup |-> 0, restore |-> 0]
    /\ stores = [backup |-> <<>>, restore |-> <<>>]
    /\ src = <<>>
    /\ tree = EmptyTree
    /\ rpc = "idle"
    /\ selected = None
    /\ path_map = EmptyMap
    /\ to_extract = {}
    /\ rtotal_files = 0
    /\ rdone = 0
    /\ rpos = 1
    /\ writes = <<>>
    /\ mkdirs = {}
    /\ fault = FALSE
    /\ preview_map = EmptyMap
    /\ rresult = <<>>

Init ==
    /\ inputs \in InputLists
    /\ Idle
    /\ WorkerOff
    /\ AdjustOff
    /\ GuiOff

\* variant of BackupManifest that leaves fingerprint.txt for later
BackupManifest_NoAppend ==
    /\ bpc = "start"
    /\ total_files' = TotalFiles(inputs)
    /\ done' = 0
    /\ bpc' = "populate"
    /\ tar_on_disk' = TRUE
    /\ UNCHANGED <<inputs, archive, idx, walked, progress, stores, rvars, fault>>
    /\ UNCHANGED <<compression_enabled, wpc, status, gzip_calls, avars, gvars>>

\* backup.rs 90-135: archive file created, tokens, pre-count, fingerprint.txt
\* appended
BackupManifest ==
    /\ bpc = "start"
    /\ total_files' = TotalFiles(inputs)
    /\ done' = 0
    /\ archive' = Append(archive, ManifestEntry(FolderUuid(inputs)))
    /\ bpc' = "populate"
    /\ tar_on_disk' = TRUE
    /\ UNCHANGED <<inputs, idx, walked, progress, stores, rvars, fault>>
    /\ UNCHANGED <<compression_enabled, wpc, status, gzip_calls, avars, gvars>>

\* backup.rs 139-164: a top-level file
BackupLoneFile ==
    /\ bpc = "populate"
    /\ idx <= Len(inputs)
    /\ is_file(Candidates[inputs[idx]])
    /\ archive' = Append(archive,
          [name |-> LoneEntryName(Uuid(idx), Candidates[inputs[idx]].path),
           kind |-> "file", data |-> <<>>])
    /\ done' = done + 1
    /\ ProgressSet("backup", ((done + 1) * 100) \div total_files)
    /\ idx' = idx + 1
    /\ UNCHANGED <<inputs, bpc, walked, total_files, rvars, fault>>
    /\ UNCHANGED <<wvars, avars, gvars>>

\* backup.rs 169-200: one entry of the walk of a folder input
BackupWalkEntry ==
    /\ bpc = "populate"
    /\ idx <= Len(inputs)
    /\ ~is_file(Candidates[inputs[idx]])
    /\ \E rel \in NextWalk(Candidates[inputs[idx]], walked) :
         LET k == WalkKind(Candidates[inputs[idx]], rel)
             name == TarEntryPath(Uuid(idx), rel)
         IN /\ walked' = Append(walked, rel)
            /\ IF k = "file"
               THEN /\ archive' = Append(archive, [name |-> name, kind |-> "file", data |-> <<>>])
                    /\ done' = done + 1
                    /\ ProgressSet("backup", ((done + 1) * 100) \div total_files)
               ELSE IF k = "dir"
               THEN /\ archive' = Append(archive, [name |-> name, kind |-> "dir", data |-> <<>>])
                    /\ UNCHANGED <<done, progress, stores>>
               ELSE UNCHANGED <<archive, done, progress, stores>>
    /\ UNCHANGED <<inputs, bpc, idx, total_files, rvars, fault>>
    /\ UNCHANGED <<wvars, avars, gvars>>

\* backup.rs 169-201: the walk of a folder input is exhausted
BackupFolderDone ==
    /\ bpc = "populate"
    /\ idx <= Len(inputs)
    /\ ~is_file(Candidates[inputs[idx]])
    /\ NextWalk(Candidates[inputs[idx]], walked) = {}
    /\ idx' = idx + 1
    /\ walked' = <<>>
    /\ UNCHANGED <<inputs, bpc, archive, total_files, done, progress, stores, rvars, fault>>
    /\ UNCHANGED <<wvars, avars, gvars>>

\* backup.rs 204-209: finish, Progress::done, Ok
BackupFinish ==
    /\ bpc = "populate"
    /\ idx > Len(inputs)
    /\ ProgressSet("backup", 101)
    /\ bpc' = "done"
    /\ UNCHANGED <<inputs, archive, idx, walked, total_files, done, rvars, fault>>
    /\ UNCHANGED <<wvars, avars, gvars>>

\* any `?` of backup_gui: File::create, metadata, File::open, append_data,
\* finish; before the first append the failure is that of File::create, which
\* leaves no archive file, or that of the append, which leaves one
BackupIoError ==
    /\ bpc \in {"start", "populate"}
    /\ bpc' = "err"
    /\ fault' = TRUE
    /\ tar_on_disk' \in (IF bpc = "start" THEN BOOLEAN ELSE {tar_on_disk})
    /\ UNCHANGED <<inputs, archive, idx, walked, total_files, done, progress, stores, rvars>>
    /\ UNCHANGED <<compression_enabled, wpc, status, gzip_calls, avars, gvars>>

\* main.rs 696-703 and 405-418: the preview thread reads the archive and
\* builds the tree, the GUI checks every node
Preview ==
    /\ bpc = "done"
    /\ rpc = "idle"
    /\ \E a \in SourceArchives(archive) :
         LET parsed == parse_fingerprint(a)
         IN /\ src' = a
            /\ preview_map' = parsed[2]
            /\ \E order \in Orders(DOMAIN parsed[2]) :
                 tree' = check_all(build_human_tree(parsed[1], parsed[2], order))
    /\ rpc' = "preview"
    /\ UNCHANGED <<bvars, progress, stores, selected, path_map, to_extract,
                   rtotal_files, rdone, rpos, writes, mkdirs, fault, rresult>>
    /\ UNCHANGED <<wvars, avars, gvars>>

\* restore.rs 65-155 for the selection sel: manifest pass, selection
\* resolver, pre-count
RestoreBeginWith(sel) ==
    /\ rpc = "preview"
    /\ selected' = sel
    /\ IF ValidFingerprint(src)
       THEN LET m == RestorePathMap(src)
                x == IF sel.some THEN ToExtract(sel.paths, m) ELSE {}
            IN /\ path_map' = m
               /\ to_extract' = x
               /\ rtotal_files' = RestoreTotal(src, sel, x)
               /\ rpc' = "extract"
               /\ UNCHANGED rresult
       ELSE /\ rpc' = "err"
            /\ rresult' = Err(InvalidFingerprint)
            /\ UNCHANGED <<path_map, to_extract, rtotal_files>>
    /\ rdone' = 0
    /\ rpos' = 1
    /\ UNCHANGED <<bvars, progress, stores, src, writes, mkdirs, fault, preview_map>>

\* restore_backup called with any selection
RestoreBegin ==
    /\ \E sel \in Selections(tree) : RestoreBeginWith(sel)
    /\ UNCHANGED <<tree, wvars, avars, gvars>>

\* restore.rs 172-199: the entries the extraction loop passes over: the
\* manifest, what the selection leaves out, what no token or path resolves
Skipped(entry, sel, x, m) ==
    \/ entry.name = ManifestName
    \/ sel.some /\ entry.name \notin x
    \/ UnpackTo(entry.name, m) = <<>>

\* restore.rs 166-226: one entry of the extraction loop
RestoreEntry ==
    /\ rpc = "extract"
    /\ rpos <= Len(src)
    /\ LET entry == src[rpos]
           skipped == Skipped(entry, selected, to_extract, path_map)
           unpack_to == UnpackTo(entry.name, path_map)
       IN IF skipped
          THEN /\ rpos' = rpos + 1
               /\ UNCHANGED <<rpc, rdone, writes, mkdirs, progress, stores, rresult>>
          ELSE /\ mkdirs' = mkdirs \cup {Parent(unpack_to)}
               /\ IF UnpackFails(entry, unpack_to)
                  THEN /\ rpc' = "err"
                       /\ rresult' = Err(IoErrorText)
                       /\ UNCHANGED <<rpos, rdone, writes, progress, stores>>
                  ELSE /\ writes' = Append(writes,
                              [name |-> entry.name, kind |-> entry.kind, dst |-> unpack_to])
                       /\ rdone' = rdone + 1
                       /\ ProgressSet("restore", ((rdone + 1) * 100) \div rtotal_files)
                       /\ rpos' = rpos + 1
                       /\ UNCHANGED <<rpc, rresult>>
    /\ UNCHANGED <<bvars, src, tree, selected, path_map, to_extract, rtotal_files, fault,
                   preview_map>>
    /\ UNCHANGED <<wvars, avars, gvars>>

\* restore.rs 228-231: status, Progress::done, Ok
RestoreFinish ==
    /\ rpc = "extract"
    /\ rpos > Len(src)
    /\ ProgressSet("restore", 101)
    /\ rpc' = "done"
    /\ rresult' = Ok
    /\ UNCHANGED <<bvars, src, tree, selected, path_map, to_extract, rtotal_files,
                   rdone, rpos, writes, mkdirs, fault, preview_map>>
    /\ UNCHANGED <<wvars, avars, gvars>>

\* variant of RestoreIoError that gives the failing entry up and goes on
RestoreIoError_Continue ==
    /\ rpc = "extract"
    /\ rpos <= Len(src)
    /\ rpos' = rpos + 1
    /\ fault' = TRUE
    /\ UNCHANGED <<bvars, progress, stores, src, tree, rpc, selected, path_map, to_extract,
                   rtotal_files, rdone, writes, mkdirs, preview_map, rresult>>
    /\ UNCHANGED <<wvars, avars, gvars>>

\* any other `?` of the extraction loop: create_dir_all or unpack fails
RestoreIoError ==
    /\ rpc = "extract"
    /\ rpos <= Len(src)
    /\ rpc' = "err"
    /\ fault' = TRUE
    /\ rresult' = Err(IoErrorText)
    /\ UNCHANGED <<bvars, progress, stores, src, tree, selected, path_map, to_extract,
                   rtotal_files, rdone, rpos, writes, mkdirs, preview_map>>
    /\ UNCHANGED <<wvars, avars, gvars>>

Next ==
    \/ BackupManifest
    \/ BackupLoneFile
    \/ BackupWalkEntry
    \/ BackupFolderDone
    \/ BackupFinish
    \/ BackupIoError
    \/ Preview
    \/ RestoreBegin
    \/ RestoreEntry
    \/ RestoreFinish
    \/ RestoreIoError

Spec == Init /\ [][Next]_vars

\* backup_gui alone: every run of the backup, nothing read back
BackupNext ==
    \/ BackupManifest
    \/ BackupLoneFile
    \/ BackupWalkEntry
    \/ BackupFolderDone
    \/ BackupFinish
    \/ BackupIoError

BackupSpec == Init /\ [][BackupNext]_vars

(***************************************************************************)
(* The Create Backup worker thread (main.rs 627-679): backup_gui, then the  *)
(* gzip step when compression is enabled.                                  *)
(***************************************************************************)
\* the codes konserve_gzip_tar may return: 0 for success, anything else
GzipCodes == {-1, 0, 1, 2}

\* the status lines of the worker
Packing(compress) == <<"Packing", compress>>

Created(ext) == <<"Backup created", ext>>

GzipFailed(rc) == <<"Gzip step failed", rc>>

BackupFailed(e) == <<"Backup failed", e>>

Cancelled == <<"Cancelled">>

\* main.rs 627-647: status set, thread spawned
WorkerInit ==
    /\ inputs \in InputLists
    /\ Idle
    /\ AdjustOff
    /\ compression_enabled \in BOOLEAN
    /\ wpc = "run"
    /\ status = Packing(compression_enabled)
    /\ tar_on_disk = FALSE
    /\ gzip_calls = <<>>
    /\ selected_folders = [i \in 1..Len(inputs) |-> Candidates[inputs[i]].path]
    /\ backup_progress = TRUE
    /\ restore_progress = FALSE
    /\ restore_opening = FALSE
    /\ restore_rx = "None"
    /\ restore_msg = <<>>
    /\ restore_editor = FALSE

\* main.rs 648, 675-677: no destination was picked, backup_gui is not called
WorkerCancelled ==
    /\ wpc = "run"
    /\ bpc = "start"
    /\ bpc' = "not called"
    /\ status' = Cancelled
    /\ wpc' = "end"
    /\ UNCHANGED <<inputs, archive, idx, walked, total_files, done, progress, stores,
                   rvars, fault, compression_enabled, tar_on_disk, gzip_calls, avars, gvars>>

\* main.rs 670-673: backup_gui returned Err
WorkerBackupFailed ==
    /\ wpc = "run"
    /\ bpc = "err"
    /\ status' = BackupFailed(IoErrorText)
    /\ wpc' = "end"
    /\ UNCHANGED <<bvars, progress, stores, rvars, fault, compression_enabled,
                   tar_on_disk, gzip_calls, avars, gvars>>

\* variant of WorkerCompress that removes the archive whatever the code is
WorkerCompress_AlwaysRemove ==
    /\ wpc = "run"
    /\ bpc = "done"
    /\ compression_enabled
    /\ \E rc \in GzipCodes :
         /\ gzip_calls' = Append(gzip_calls, rc)
         /\ tar_on_disk' = FALSE
         /\ status' = IF rc = 0 THEN Created("tar.gz") ELSE GzipFailed(rc)
    /\ wpc' = "end"
    /\ UNCHANGED <<bvars, progress, stores, rvars, fault, compression_enabled, avars, gvars>>

\* main.rs 651-665: backup_gui returned Ok and compression is enabled; the
\* result of remove_file is dropped, so a removal that fails leaves the
\* archive and changes nothing else
WorkerCompress ==
    /\ wpc = "run"
    /\ bpc = "done"
    /\ compression_enabled
    /\ \E rc \in GzipCodes :
         /\ gzip_calls' = Append(gzip_calls, rc)
         /\ IF rc = 0
            THEN /\ \E removed \in BOOLEAN :
                      /\ tar_on_disk' = ~removed
                      /\ fault' = ~removed
                 /\ status' = Created("tar.gz")
            ELSE /\ status' = GzipFailed(rc)
                 /\ UNCHANGED <<tar_on_disk, fault>>
    /\ wpc' = "end"
    /\ UNCHANGED <<bvars, progress, stores, rvars, compression_enabled, avars, gvars>>

\* main.rs 666-668: backup_gui returned Ok and compression is disabled
WorkerPlain ==
    /\ wpc = "run"
    /\ bpc = "done"
    /\ ~compression_enabled
    /\ status' = Created("tar")
    /\ wpc' = "end"
    /\ UNCHANGED <<bvars, progress, stores, rvars, fault, compression_enabled,
                   tar_on_disk, gzip_calls, avars, gvars>>

\* main.rs 721-753: a frame of the Home tab reads the cell of every installed
\* handle and drops the handle when the value is above 100; a frame that
\* finds 0..=100 draws the bar and changes nothing
ProgressBars ==
    /\ ~restore_editor
    /\ \/ backup_progress /\ progress.backup > 100
       \/ restore_progress /\ progress.restore > 100
    /\ backup_progress' = (backup_progress /\ progress.backup <= 100)
    /\ restore_progress' = (restore_progress /\ progress.restore <= 100)
    /\ UNCHANGED <<bvars, rvars, wvars, avars, progress, stores, fault>>
    /\ UNCHANGED <<selected_folders, restore_opening, restore_rx, restore_msg, restore_editor>>

WorkerNext ==
    \/ ProgressBars
    \/ BackupManifest
    \/ BackupLoneFile
    \/ BackupWalkEntry
    \/ BackupFolderDone
    \/ BackupFinish
    \/ BackupIoError
    \/ WorkerCancelled
    \/ WorkerBackupFailed
    \/ WorkerCompress
    \/ WorkerPlain

WorkerSpec == WorkerInit /\ [][WorkerNext]_vars

\* the worker thread runs until it returns and the GUI repaints while a bar
\* is shown (main.rs 746): no step that stays possible is put off for ever
WorkerFairSpec == WorkerSpec /\ WF_vars(WorkerNext)

(***************************************************************************)
(* adjust_path called on its own, as fix_skip and restore_backup call it:   *)
(* the original paths are a drive prefix, a user name and what follows it.  *)
(***************************************************************************)
AdjustPrefixes ==
    { UsersDir \o <<"\\">>,
      <<"c", ":", "\\", "u", "s", "e", "r", "s", "\\">>,
      PDir \o <<"\\">>,
      <<"D", ":", "\\", "U", "s", "e", "r", "s", "\\">> }

AdjustNames == {<<"o">>, <<"n">>}

AdjustRests ==
    { <<>>, <<"\\", "F">>, <<"\\", "F", "\\", "a", ".", "t">>, <<"\\", "e">> }

AdjustOriginals ==
    {p \o n \o r : p \in AdjustPrefixes, n \in AdjustNames, r \in AdjustRests}

AdjustHomes == {UsersDir \o <<"\\">> \o n : n \in AdjustNames}

AdjustInit ==
    /\ inputs = <<1>>
    /\ Idle
    /\ WorkerOff
    /\ original \in AdjustOriginals
    /\ home \in AdjustHomes
    /\ adjusted = <<>>
    /\ GuiOff

\* helpers.rs 539-564
AdjustCall ==
    /\ original # <<>>
    /\ adjusted = <<>>
    /\ adjusted' = adjust_path(original, home)
    /\ UNCHANGED <<bvars, rvars, wvars, gvars, progress, stores, fault, original, home>>

AdjustNext == AdjustCall

AdjustSpec == AdjustInit /\ [][AdjustNext]_vars

(***************************************************************************)
(* The restore screens of the GUI (main.rs 351-424, 681-753): an archive is *)
(* picked, a thread builds its tree, the selection screen shows the tree    *)
(* with its checkboxes, and "Restore selected" starts restore_backup on a   *)
(* thread of its own.  One archive is restored per session.                 *)
(***************************************************************************)
Children(t, p) == {q \in DOMAIN t : Len(q) = Len(p) + 1 /\ IsPrefixSeq(p, q)}

\* the nodes render_tree draws with a collapsing header
Inner(t) == {p \in DOMAIN t : p # <<>> /\ Children(t, p) # {}}

\* helpers.rs 266-277: the node at p and everything below it
set_all_checked(t, p, v) ==
    [q \in DOMAIN t |-> IF IsPrefixSeq(p, q) THEN [t[q] EXCEPT !.checked = v] ELSE t[q]]

\* render_tree reaches the node at p when every header above it is open; the
\* children of the root have none above them
Rendered(p, open) == \A k \in 1..(Len(p) - 1) : SubSeq(p, 1, k) \in open

\* the checkbox of the node at click has changed: a childless node flips, a
\* node with children flips and hands its new value to set_all_checked
Clicked(t, click) ==
    IF click = <<>> THEN t
    ELSE IF Children(t, click) = {} THEN [t EXCEPT ![click].checked = ~@]
    ELSE set_all_checked(t, click, ~t[click].checked)

\* variant of RenderChecked that leaves a folder's checkbox as it was
RenderChecked_Keep(t, open, p) == t[p].checked

RECURSIVE RenderChecked(_, _, _)
\* the checked field of the rendered node at p when render_tree is through
\* with it: a node with children is set, after the recursion into an open
\* header, to whether any of its children is checked
RenderChecked(t, open, p) ==
    IF Children(t, p) = {} THEN t[p].checked
    ELSE \E q \in Children(t, p) :
            IF p \in open THEN RenderChecked(t, open, q) ELSE t[q].checked

\* helpers.rs 287-327: one pass of render_tree over the tree, in which the
\* user changed the checkbox of the node at click (<<>>: of none) and the
\* headers in open were open
render_tree(t, click, open) ==
    LET t1 == Clicked(t, click)
    IN [p \in DOMAIN t |->
           IF p # <<>> /\ Rendered(p, open)
           THEN [t1[p] EXCEPT !.checked = RenderChecked(t1, open, p)]
           ELSE t1[p]]

\* the status lines of the preview
OpeningArchive == <<"Opening archive">>

Failed(e) == <<"Failed", e>>

\* the RestoreMsg of a preview that succeeded
OkTree(t) == <<"Ok", t>>

\* main.rs 681-708: "Restore Backup" clicked and a file picked
RestoreBackupClicked ==
    /\ bpc = "done"
    /\ rpc = "idle"
    /\ ~restore_editor
    /\ restore_rx = "None"
    /\ src' \in SourceArchives(archive)
    /\ restore_opening' = TRUE
    /\ status' = OpeningArchive
    /\ restore_rx' = "Some"
    /\ rpc' = "opening"
    /\ UNCHANGED <<bvars, progress, stores, tree, selected, path_map, to_extract,
                   rtotal_files, rdone, rpos, writes, mkdirs, fault, preview_map, rresult>>
    /\ UNCHANGED <<compression_enabled, wpc, tar_on_disk, gzip_calls, avars>>
    /\ UNCHANGED <<selected_folders, backup_progress, restore_progress, restore_msg,
                   restore_editor>>

\* main.rs 697-707: the preview thread reads the archive, builds the tree and
\* sends the result; parse_fingerprint fails when the file cannot be read
PreviewThread ==
    /\ rpc = "opening"
    /\ \/ /\ restore_msg' = Err(IoErrorText)
          /\ fault' = TRUE
          /\ UNCHANGED preview_map
       \/ LET parsed == parse_fingerprint(src)
          IN /\ preview_map' = parsed[2]
             /\ \E order \in Orders(DOMAIN parsed[2]) :
                  restore_msg' = OkTree(build_human_tree(parsed[1], parsed[2], order))
             /\ UNCHANGED fault
    /\ rpc' = "sent"
    /\ UNCHANGED <<bvars, progress, stores, src, tree, selected, path_map, to_extract,
                   rtotal_files, rdone, rpos, writes, mkdirs, rresult>>
    /\ UNCHANGED <<wvars, avars>>
    /\ UNCHANGED <<selected_folders, backup_progress, restore_progress, restore_opening,
                   restore_rx, restore_editor>>

\* main.rs 400-424: the GUI takes the result off the channel
PreviewReceived ==
    /\ restore_rx = "Some"
    /\ restore_msg # <<>>
    /\ ~restore_editor
    /\ IF restore_msg[1] = "Ok"
       THEN /\ tree' = check_all(restore_msg[2])
            /\ restore_editor' = TRUE
            /\ rpc' = "preview"
            /\ UNCHANGED <<status, src, preview_map>>
       ELSE /\ status' = Failed(restore_msg[2])
            /\ rpc' = "idle"
            /\ src' = <<>>
            /\ preview_map' = EmptyMap
            /\ UNCHANGED <<tree, restore_editor>>
    /\ restore_rx' = "None"
    /\ restore_msg' = <<>>
    /\ UNCHANGED <<bvars, progress, stores, selected, path_map, to_extract,
                   rtotal_files, rdone, rpos, writes, mkdirs, fault, rresult>>
    /\ UNCHANGED <<compression_enabled, wpc, tar_on_disk, gzip_calls, avars>>
    /\ UNCHANGED <<selected_folders, backup_progress, restore_progress, restore_opening>>

\* the headers above the node at p
Ancestors(p) == {SubSeq(p, 1, k) : k \in 1..(Len(p) - 1)}

\* main.rs 351-361: a frame of the selection screen, in which the user changes
\* at most one checkbox (<<>>: none) among those that are drawn; the open
\* headers are either just those that show the checkbox, or all of them
EditorFrame ==
    /\ restore_editor
    /\ \E click \in DOMAIN tree :
         \E open \in {Ancestors(click), Inner(tree)} :
            tree' = render_tree(tree, click, open)
    /\ UNCHANGED <<bvars, progress, stores, src, rpc, selected, path_map, to_extract,
                   rtotal_files, rdone, rpos, writes, mkdirs, fault, preview_map, rresult>>
    /\ UNCHANGED <<wvars, avars, gvars>>

\* main.rs 389-393: "Cancel" on the selection screen
EditorCancel ==
    /\ restore_editor
    /\ restore_editor' = FALSE
    /\ src' = <<>>
    /\ tree' = EmptyTree
    /\ preview_map' = EmptyMap
    /\ rpc' = "idle"
    /\ UNCHANGED <<bvars, progress, stores, selected, path_map, to_extract,
                   rtotal_files, rdone, rpos, writes, mkdirs, fault, rresult>>
    /\ UNCHANGED <<wvars, avars>>
    /\ UNCHANGED <<selected_folders, backup_progress, restore_progress, restore_opening,
                   restore_rx, restore_msg>>

\* main.rs 365-387: "Restore selected": the selection is collected from the
\* tree, a fresh Progress is installed, restore_backup starts on its thread
RestoreSelected ==
    /\ restore_editor
    /\ RestoreBeginWith(Some(collect_paths(tree)))
    /\ restore_progress' = TRUE
    /\ restore_opening' = FALSE
    /\ restore_editor' = FALSE
    /\ UNCHANGED <<tree, wvars, avars>>
    /\ UNCHANGED <<selected_folders, backup_progress, restore_rx, restore_msg>>

GuiNext ==
    \/ BackupNext
    \/ RestoreBackupClicked
    \/ PreviewThread
    \/ PreviewReceived
    \/ EditorFrame
    \/ EditorCancel
    \/ RestoreSelected
    \/ RestoreEntry
    \/ RestoreFinish
    \/ RestoreIoError
    \/ ProgressBars

GuiSpec == Init /\ [][GuiNext]_vars

\* the preview alone, up to the user's decision on the selection screen
PreviewNext ==
    \/ BackupNext
    \/ RestoreBackupClicked
    \/ PreviewThread
    \/ PreviewReceived
    \/ EditorCancel
    \/ RestoreSelected

PreviewSpec == Init /\ [][PreviewNext]_vars

\* the preview thread runs until it has sent its result and the GUI repaints
\* while the spinner is shown (main.rs 718), so the result is received; what
\* the user does next is left open
PreviewFairSpec == PreviewSpec /\ WF_vars(PreviewThread) /\ WF_vars(PreviewReceived)

(***************************************************************************)
(* Filling the list of backup inputs (main.rs 426-445, 549-589): paths     *)
(* arrive from a file or folder dialog, or a template is loaded.           *)
(***************************************************************************)
\* the longest dialog result and the longest template
MaxPick == 2

\* Path::exists for the paths of the file system above
Exists(p) == \E i \in 1..NumCand : Candidates[i].path = p /\ Candidates[i].kind # "missing"

\* the place of an existing path in the order of PathBuf, which is the order
\* of Candidates
PathRank(p) == CHOOSE i \in 1..NumCand : Candidates[i].path = p

RECURSIVE SortInsert(_, _)
SortInsert(s, x) ==
    IF s = <<>> THEN <<x>>
    ELSE IF PathRank(s[Len(s)]) <= PathRank(x) THEN Append(s, x)
    ELSE Append(SortInsert(SubSeq(s, 1, Len(s) - 1), x), s[Len(s)])

RECURSIVE sort(_)
\* Vec::sort: stable, equal paths stay next to each other
sort(s) == IF s = <<>> THEN <<>> ELSE SortInsert(sort(SubSeq(s, 1, Len(s) - 1)), s[Len(s)])

RECURSIVE dedup(_)
\* Vec::dedup: of every run of equal elements the first is kept
dedup(s) ==
    IF Len(s) <= 1 THEN s
    ELSE LET r == dedup(SubSeq(s, 1, Len(s) - 1))
         IN IF r[Len(r)] = s[Len(s)] THEN r ELSE Append(r, s[Len(s)])

\* helpers.rs 571-596: Option<PathBuf> as a sequence of at most one path
fix_skip(p, cur) ==
    IF Exists(p) THEN <<p>>
    ELSE IF Exists(adjust_path(p, cur)) THEN <<adjust_path(p, cur)>>
    ELSE <<>>

RECURSIVE Valid(_, _, _)
\* main.rs 559-567: the paths of the template that fix_skip keeps, in order
Valid(paths, cur, i) ==
    IF i > Len(paths) THEN <<>>
    ELSE fix_skip(paths[i], cur) \o Valid(paths, cur, i + 1)

\* what a dialog may hand back: existing paths, in any order
DialogResults ==
    UNION {[1..n -> {Candidates[i].path : i \in {j \in 1..NumCand : Exists(Candidates[j].path)}}]
              : n \in 1..MaxPick}

\* the paths a template may list: those of the file system, the missing one
\* among them, and a folder below the home of another user
TemplatePaths ==
    {Candidates[i].path : i \in 1..NumCand} \cup {UsersDir \o <<"\\", "x", "\\", "F">>}

Templates == UNION {[1..n -> TemplatePaths] : n \in 0..MaxPick}

\* the status lines of Load Template
TemplateLoaded(skipped) == <<"Template loaded", skipped>>

BadTemplate == <<"Bad template format">>

PickInit ==
    /\ inputs = <<1>>
    /\ Idle
    /\ WorkerOff
    /\ AdjustOff
    /\ GuiOff

\* main.rs 426-436: the paths of a dialog arrive on the channel
FileDialogResult ==
    /\ \E paths \in DialogResults :
         selected_folders' = dedup(sort(selected_folders \o paths))
    /\ UNCHANGED <<bvars, rvars, wvars, avars, progress, stores, fault>>
    /\ UNCHANGED <<backup_progress, restore_progress, restore_opening, restore_rx,
                   restore_msg, restore_editor>>

\* main.rs 549-589: "Load Template" with a file that parses, or with one
\* that does not; the home directory is that of the user whose files these are
LoadTemplate ==
    /\ \/ \E paths \in Templates :
            LET valid == Valid(paths, OldHome, 1)
            IN /\ selected_folders' = valid
               /\ status' = TemplateLoaded(Len(paths) - Len(valid))
       \/ /\ status' = BadTemplate
          /\ UNCHANGED selected_folders
    /\ UNCHANGED <<bvars, rvars, avars, progress, stores, fault>>
    /\ UNCHANGED <<compression_enabled, wpc, tar_on_disk, gzip_calls>>
    /\ UNCHANGED <<backup_progress, restore_progress, restore_opening, restore_rx,
                   restore_msg, restore_editor>>

PickNext ==
    \/ FileDialogResult
    \/ LoadTemplate

PickSpec == PickInit /\ [][PickNext]_vars

(***************************************************************************)
(* Properties                                                              *)
(***************************************************************************)
RestoreStarted == rpc \in {"extract", "done", "err"}

C1_InvalidArchive ==
    \/ \A i \in 1..Len(src) : src[i].name # ManifestName
    \/ \E i \in 1..Len(src) :
          /\ src[i].name = ManifestName
          /\ \A j \in 1..(i - 1) : src[j].name # ManifestName
          /\ ~Contains(src[i].data, Marker)

\* C1: restore_backup on an archive without fingerprint.txt, or whose
\* fingerprint.txt does not carry the build marker, ends in Err, and no
\* directory is created and no entry is unpacked at any point of that run.
C1_InvalidArchiveNoWrites ==
    (RestoreStarted /\ C1_InvalidArchive) =>
        (rpc = "err" /\ writes = <<>> /\ mkdirs = {})

C1_Witness ==
    /\ rpc = "err"
    /\ ~fault
    /\ Len(src) >= 2
    /\ src[1].name = ManifestName
    /\ ~Contains(src[1].data, Marker)

\* the files below the folder inputs, as (input, relative components)
C2_Files ==
    UNION {{<<i, n.rel>> : n \in {x \in Candidates[inputs[i]].sub : x.kind = "file"}}
           : i \in 1..Len(inputs)}

\* original folder path joined with the relative path, as the tree shows it
C2_HumanPath(f) ==
    Parent(Candidates[inputs[f[1]]].path) \o <<"/">>
      \o FileName(Candidates[inputs[f[1]]].path) \o <<"/">> \o JoinWith(f[2], <<"/">>)

C2_EntryName(f) == Uuid(f[1]) \o <<"/">> \o JoinWith(f[2], <<"/">>)

C2_Wanted == {C2_EntryName(f) : f \in {g \in C2_Files : C2_HumanPath(g) \in selected.paths}}

\* C2: with a selection made only of human paths of files of folder inputs,
\* restore_backup never unpacks an entry outside the selection, and a run that
\* returns Ok has unpacked exactly the selected files, each once.
C2_SelectiveExtraction ==
    (RestoreStarted /\ selected.some
       /\ selected.paths \subseteq {C2_HumanPath(f) : f \in C2_Files}) =>
        /\ \A k \in 1..Len(writes) :
              writes[k].name \in C2_Wanted /\ writes[k].kind = "file"
        /\ rpc = "done" =>
              /\ {writes[k].name : k \in 1..Len(writes)} = C2_Wanted
              /\ Len(writes) = Cardinality(C2_Wanted)

C2_Witness ==
    /\ rpc = "done"
    /\ inputs = <<5>>
    /\ selected = Some({OldHome \o <<"/", "F", "/", "s", "/", "b", ".", "t">>})
    /\ Len(writes) = 1
    /\ writes[1].name = <<"u", "1", "/", "s", "/", "b", ".", "t">>
    /\ SamePath(writes[1].dst, current_home \o <<"\\", "F", "\\", "s", "\\", "b", ".", "t">>)

C3_Leaves ==
    {PathComponents(HumanPath(p)) : p \in {q \in DOMAIN tree : ~HasChildren(tree, q)}}

C3_OriginalFiles ==
    UNION {
      LET c == Candidates[inputs[i]]
      IN IF c.kind \in {"file", "symlink"} THEN {PathComponents(c.path)}
         ELSE {PathComponents(PathJoin(c.path, JoinWith(n.rel, MainSep)))
                 : n \in {x \in c.sub : x.kind = "file"}}
      : i \in 1..Len(inputs)}

\* C3: the leaves of build_human_tree(parse_fingerprint(archive written by
\* backup_gui)), named by their human path, are exactly the original files
\* under the inputs (every input being a file or a folder that exists).
C3_LeavesAreOriginalFiles ==
    (rpc # "idle" /\ src = archive
       /\ \A i \in 1..Len(inputs) : Candidates[inputs[i]].kind # "missing") =>
        C3_Leaves = C3_OriginalFiles

\* the text of an entry name up to its first '/' or '.'
LeadingComponent(name) ==
    LET hits == {i \in 1..Len(name) : name[i] \in {"/", "."}}
    IN IF hits = {} THEN name
       ELSE SubSeq(name, 1, (CHOOSE i \in hits : \A j \in hits : i <= j) - 1)

\* the token -> path table read back from the first entry of the archive
WrittenManifest == ParseLines(Lines(archive[1].data), 1, EmptyMap)

\* the token that manifest m records for input i
TokenOf(m, i) == CHOOSE u \in DOMAIN m : m[u] = Candidates[inputs[i]].path

\* the leading component of every payload entry of the archive
Leads == [k \in 2..Len(archive) |-> LeadingComponent(archive[k].name)]

\* the payload entries whose name begins with token t
EntriesOf(lead, t) == {k \in DOMAIN lead : lead[k] = t}

LoneInputs == {i \in 1..Len(inputs) : Candidates[inputs[i]].kind \in {"file", "symlink"}}

C4_ExpectedName(t, i) ==
    LET n == FileName(Candidates[inputs[i]].path)
        dot == RFindChar(n, ".")
    IN IF dot > 1 THEN t \o <<".">> \o Drop(n, dot) ELSE t

\* C4: for every top-level input that is a single file, backup_gui writes
\* exactly one entry, named "<token>.<ext>" when the path has an extension and
\* "<token>" when it has none, <token> being the manifest's token for the input.
C4_LoneFileNaming ==
    LET m == WrittenManifest
        lead == Leads
    IN \A i \in LoneInputs :
          (bpc \in {"populate", "done", "err"} /\ archive # <<>> /\ i < idx) =>
              LET t == TokenOf(m, i)
                  mine == EntriesOf(lead, t)
              IN /\ Cardinality(mine) = 1
                 /\ \A k \in mine :
                       /\ archive[k].name = C4_ExpectedName(t, i)
                       /\ archive[k].kind = "file"

C4_Witness ==
    /\ bpc = "done"
    /\ inputs = <<2, 6>>
    /\ archive[2].name = <<"u", "1">>
    /\ archive[3].name = <<"u", "2", ".", "d">>

\* C5: restore_backup with selected = None writes the entry of every lone
\* file, with or without extension, to adjust_path(original path).
C5_LoneFileRoundTrip ==
    (rpc \in {"done", "err"} /\ ~selected.some /\ src = archive /\ ~fault) =>
        /\ rpc = "done"
        /\ \A i \in LoneInputs :
              \E k \in 1..Len(writes) :
                 /\ LeadingComponent(writes[k].name) = Uuid(i)
                 /\ SamePath(writes[k].dst,
                             adjust_path(Candidates[inputs[i]].path, current_home))

\* the empty directories of the inputs, as (input, relative components)
C6_EmptyDirs ==
    UNION {
      LET c == Candidates[inputs[i]]
      IN IF c.kind # "dir" THEN {}
         ELSE (IF c.sub = {} THEN {<<i, <<>> >>} ELSE {})
              \cup {<<i, n.rel>> : n \in {x \in c.sub :
                        x.kind = "dir"
                        /\ ~\E y \in c.sub : y # x /\ IsPrefixSeq(x.rel, y.rel)}}
      : i \in 1..Len(inputs)}

C6_EntryName(d) == Uuid(d[1]) \o <<"/">> \o JoinWith(d[2], <<"/">>)

C6_Node(d) ==
    <<Parent(Candidates[inputs[d[1]]].path), FileName(Candidates[inputs[d[1]]].path)>> \o d[2]

\* C6: an empty directory D of a folder input gets a zero-length directory
\* entry, exists as a directory after a successful restore of the archive, and
\* is never a node with is_file = true in the tree of build_human_tree.
C6_EmptyDirectoryPreserved ==
    \A d \in C6_EmptyDirs :
        /\ bpc = "done" =>
              \E k \in 2..Len(archive) :
                 /\ archive[k].name = C6_EntryName(d)
                 /\ archive[k].kind = "dir"
                 /\ archive[k].data = <<>>
        /\ (rpc = "done" /\ ~selected.some) =>
              \E k \in 1..Len(writes) :
                 /\ writes[k].kind = "dir"
                 /\ SamePath(writes[k].dst,
                             PathJoin(adjust_path(Candidates[inputs[d[1]]].path, current_home),
                                      JoinWith(d[2], MainSep)))
        /\ (rpc # "idle" /\ src = archive /\ C6_Node(d) \in DOMAIN tree) =>
              ~tree[C6_Node(d)].is_file

\* C7: the values stored in the backup's Progress cell never decrease, every
\* value stored before completion lies in 0..100, and 101 is stored exactly
\* once, last, when backup_gui completes.
C7_BackupProgress ==
    LET h == stores.backup
    IN /\ \A k \in 1..(Len(h) - 1) : h[k] <= h[k + 1]
       /\ \A k \in 1..Len(h) : h[k] # 101 => h[k] \in 0..100
       /\ \A k \in 1..Len(h) : h[k] = 101 => (k = Len(h) /\ bpc = "done")
       /\ bpc = "done" => (h # <<>> /\ h[Len(h)] = 101)

\* the entries the extraction loop unpacks
C8_Processed ==
    Cardinality({k \in 1..Len(src) :
        /\ src[k].name # ManifestName
        /\ selected.some => src[k].name \in to_extract
        /\ UnpackTo(src[k].name, path_map) # <<>>})

\* C8: the values stored in the restore's Progress cell never decrease, the
\* k-th value stored before completion is k * 100 / (number of entries that
\* will be processed) and lies in 0..100, and 101 is stored exactly once,
\* last, only when restore_backup returns Ok.
C8_RestoreProgress ==
    LET h == stores.restore
    IN /\ \A k \in 1..(Len(h) - 1) : h[k] <= h[k + 1]
       /\ \A k \in 1..Len(h) : h[k] = 101 => (k = Len(h) /\ rpc = "done")
       /\ rpc = "done" => (h # <<>> /\ h[Len(h)] = 101)
       /\ \A k \in 1..Len(h) :
             h[k] # 101 => (h[k] = (k * 100) \div C8_Processed /\ h[k] \in 0..100)

\* C9: whenever the archive under construction holds a payload entry,
\* fingerprint.txt is its first entry and lists the token of every input.
C9_ManifestFirst ==
    LET m == WrittenManifest
    IN (\E k \in 1..Len(archive) : archive[k].name # ManifestName) =>
          /\ archive[1].name = ManifestName
          /\ \A k \in 2..Len(archive) : archive[k].name # ManifestName
          /\ \A i \in 1..Len(inputs) :
                Uuid(i) \in DOMAIN m /\ m[Uuid(i)] = Candidates[inputs[i]].path

C9_Witness ==
    /\ bpc = "populate"
    /\ Len(inputs) = 2
    /\ Len(archive) = 2
    /\ archive[2].name # ManifestName

\* the number of entries input i has in the archive at this point of the write
C10_Expected(i) ==
    LET c == Candidates[inputs[i]]
    IN IF i > idx THEN 0
       ELSE IF i = idx
            THEN Cardinality({r \in Range(walked) : WalkKind(c, r) \in {"file", "dir"}})
       ELSE IF c.kind \in {"file", "symlink"} THEN 1
       ELSE IF c.kind = "dir"
            THEN 1 + Cardinality({n \in c.sub : n.kind \in {"file", "dir"}})
       ELSE 0

\* C10: the manifest holds one token per input, pairwise distinct, and at
\* every point of the write every payload entry name begins (up to its first
\* '/' or '.') with a token of the manifest, the entries of one input all
\* carrying that input's token.
C10_EntryNames ==
    LET m == WrittenManifest
        lead == Leads
    IN archive # <<>> =>
          /\ Cardinality(DOMAIN m) = Len(inputs)
          /\ \A i \in 1..Len(inputs) :
                \E u \in DOMAIN m : m[u] = Candidates[inputs[i]].path
          /\ \A k \in DOMAIN lead : lead[k] \in DOMAIN m
          /\ \A i \in 1..Len(inputs) :
                Cardinality(EntriesOf(lead, TokenOf(m, i))) = C10_Expected(i)

C10_Witness ==
    /\ bpc = "done"
    /\ inputs = <<5, 6>>
    /\ Len(archive) = 7
    /\ Cardinality(EntriesOf(Leads, Uuid(1))) = 5
    /\ Cardinality(EntriesOf(Leads, Uuid(2))) = 1

\* the text of the first fingerprint.txt of the archive holds the marker
C11_MarkerInManifest ==
    \E i \in 1..Len(src) :
       /\ src[i].name = ManifestName
       /\ \A j \in 1..(i - 1) : src[j].name # ManifestName
       /\ \E k \in 1..(Len(src[i].data) - Len(Marker) + 1) :
             SubSeq(src[i].data, k, k + Len(Marker) - 1) = Marker

\* C11: restore_backup gets past validation exactly when the text of the
\* archive's fingerprint.txt holds the build marker somewhere; otherwise it
\* returns Err("Invalid backup fingerprint."), whatever other entries the
\* archive holds.
C11_ManifestGate ==
    RestoreStarted =>
        /\ C11_MarkerInManifest <=> rresult # Err(InvalidFingerprint)
        /\ C11_MarkerInManifest <=> path_map # EmptyMap
        /\ ~C11_MarkerInManifest => (rpc = "err" /\ rresult = Err(InvalidFingerprint))

C11_Witness ==
    /\ rresult = Ok
    /\ ~StartsWith(src[1].data, Marker)
    /\ src[Len(src)].name = <<"w">>
    /\ Len(writes) >= 1

\* C12: parse_fingerprint returns Ok((entries, path_map)), which opens the
\* restore editor on the tree built from them, only for an archive that holds
\* a fingerprint.txt; without one it returns Err.
C12_MissingManifestIsErr ==
    rpc = "preview" => \E i \in 1..Len(src) : src[i].name = ManifestName

C14_Base(i) == canon(Candidates[inputs[i]].path)

\* a selected string that corresponds to no manifest path
C14_Unrecognized(h) ==
    \A i \in 1..Len(inputs) :
        /\ canon(h) # C14_Base(i)
        /\ ~StartsWith(canon(h), C14_Base(i) \o <<"/">>)

\* C14: with a selection made only of strings that correspond to no manifest
\* path, the extraction set is empty, no entry is unpacked and no directory
\* made, only a failing I/O operation makes the run return Err, and a run
\* that ends has returned Ok with Progress at 101.
C14_UnrecognizedSelection ==
    (RestoreStarted /\ rresult # Err(InvalidFingerprint) /\ selected.some
       /\ \A h \in selected.paths : C14_Unrecognized(h)) =>
        /\ to_extract = {}
        /\ writes = <<>>
        /\ mkdirs = {}
        /\ rpc = "err" => fault
        /\ rpc = "done" => (rresult = Ok /\ progress.restore = 101)
        /\ (rpc = "extract" /\ rpos > Len(src)) => ENABLED RestoreFinish

C14_Witness ==
    /\ rpc = "done"
    /\ rresult = Ok
    /\ inputs = <<2, 5>>
    /\ selected = Some({Stray})
    /\ writes = <<>>
    /\ progress.restore = 101

\* the inputs whose walk backup_gui has gone through
C15_Walked == {i \in 1..Len(inputs) : i < idx /\ ~is_file(Candidates[inputs[i]])}

\* C15: backup_gui returns Ok only for a run in which no I/O operation on a
\* source or on the destination failed: none of its fallible calls, and no
\* step of a directory traversal.
C15_AbortOnIoError ==
    (bpc = "done" /\ rpc = "idle") =>
        /\ ~fault
        /\ \A i \in C15_Walked : WalkErrors(Candidates[inputs[i]]) = 0

\* an entry the extraction loop unpacks: not the manifest, selected, and named
\* after a token of the manifest
C16_Matching(e) ==
    /\ e.name # ManifestName
    /\ selected.some => e.name \in to_extract
    /\ LeadingComponent(e.name) \in DOMAIN path_map

\* C16: when restore_backup fails at an entry it returns Err at once: the
\* entries unpacked are exactly the matching entries before the failing one,
\* in archive order, none after it, and Progress never holds 101.
C16_NoRollback ==
    /\ (fault /\ RestoreStarted) => rpc = "err"
    /\ (rpc = "err" /\ rresult # Err(InvalidFingerprint)) =>
          LET before == SelectSeq(SubSeq(src, 1, rpos - 1), C16_Matching)
          IN /\ rresult = Err(IoErrorText)
             /\ rpos <= Len(src)
             /\ Len(writes) = Len(before)
             /\ \A k \in 1..Len(writes) :
                   writes[k].name = before[k].name /\ writes[k].kind = before[k].kind
             /\ progress.restore # 101
             /\ \A k \in 1..Len(stores.restore) : stores.restore[k] # 101
             /\ ~ENABLED RestoreEntry
             /\ ~ENABLED RestoreFinish

C16_Witness ==
    /\ rpc = "err"
    /\ fault
    /\ Len(writes) = 2
    /\ \E k \in (rpos + 1)..Len(src) : C16_Matching(src[k])

\* the pieces of original between backslashes
C17_Segments == Split(original, "\\")

\* original lies under C:\Users\<name>, whatever the case of its letters
C17_UnderUserHome ==
    /\ Len(C17_Segments) >= 3
    /\ ToLower(C17_Segments[1]) = <<"c", ":">>
    /\ ToLower(C17_Segments[2]) = <<"u", "s", "e", "r", "s">>
    /\ C17_Segments[3] # <<>>

\* what follows the user name segment in original
C17_Remainder ==
    Drop(original, Len(C17_Segments[1]) + Len(C17_Segments[2]) + Len(C17_Segments[3]) + 2)

\* C17: adjust_path(original, current_home) is current_home followed by the
\* part of original after the user name segment when original lies under
\* C:\Users\<name> (in any letter case) with a name other than the current
\* user's, and is original in every other case.
C17_AdjustPath ==
    adjusted # <<>> =>
        IF C17_UnderUserHome /\ C17_Segments[3] # FileName(home)
        THEN adjusted = home \o C17_Remainder
        ELSE adjusted = original

C19_Selected == {canon(h) : h \in selected.paths}

\* the extension of the name of input i, <<>> when it has none
C19_Ext(i) ==
    LET n == FileName(Candidates[inputs[i]].path)
        dot == RFindChar(n, ".")
    IN IF dot > 1 THEN Drop(n, dot) ELSE <<>>

\* rule (2): "<token>/<rest>" for every selected "<parent>/<item>/<rest>"
C19_Nested(t, i) ==
    LET base == canon(Candidates[inputs[i]].path) \o <<"/">>
    IN {t \o <<"/">> \o Drop(h, Len(base)) :
           h \in {x \in C19_Selected : StartsWith(x, base)}}

\* rule (1) with "<token>.<ext>" for lone files only
C19_ExactLoneOnly(t, i) ==
    IF canon(Candidates[inputs[i]].path) \notin C19_Selected THEN {}
    ELSE {t} \cup (IF i \in LoneInputs /\ C19_Ext(i) # <<>>
                   THEN {t \o <<".">> \o C19_Ext(i)} ELSE {})

\* rule (1) with "<token>.<ext>" for every item whose name has an extension
C19_ExactAnyItem(t, i) ==
    IF canon(Candidates[inputs[i]].path) \notin C19_Selected THEN {}
    ELSE {t} \cup (IF C19_Ext(i) # <<>> THEN {t \o <<".">> \o C19_Ext(i)} ELSE {})

C19_Resolved == RestoreStarted /\ rresult # Err(InvalidFingerprint) /\ selected.some

\* C19 as claimed: the extraction set is exactly what rules (1) and (2) give
\* over the manifest pairs, "<token>.<ext>" being added only for a lone file
\* with an extension.
C19_SelectionResolver ==
    C19_Resolved =>
        LET m == path_map
        IN to_extract = UNION {C19_ExactLoneOnly(TokenOf(m, i), i)
                                 \cup C19_Nested(TokenOf(m, i), i) : i \in 1..Len(inputs)}

\* C19 amended: the extraction set is exactly what rules (1) and (2) give
\* over the manifest pairs, "<token>.<ext>" being added for every exactly
\* selected item whose name has an extension, lone file or folder.
C19_SelectionResolverAnyItem ==
    C19_Resolved =>
        LET m == path_map
        IN to_extract = UNION {C19_ExactAnyItem(TokenOf(m, i), i)
                                 \cup C19_Nested(TokenOf(m, i), i) : i \in 1..Len(inputs)}

C19_Witness ==
    /\ rpc = "done"
    /\ inputs = <<1, 5>>
    /\ selected = Some({PDir \o <<"/", "E", ".", "d">>,
                         OldHome \o <<"/", "F", "/", "s", "/", "b", ".", "t">>})
    /\ to_extract = {<<"u", "1">>, <<"u", "1", ".", "d">>,
                     <<"u", "2", "/", "s", "/", "b", ".", "t">>}

\* the text of an entry name before its first '/', and the text after it
C20_Root(name) ==
    LET i == Find(name, <<"/">>) IN IF i = 0 THEN name ELSE SubSeq(name, 1, i - 1)

C20_Remainder(name) ==
    LET i == Find(name, <<"/">>) IN IF i = 0 THEN <<>> ELSE Drop(name, i)

\* where the claim sends entry e: the components of the destination, <<>> for
\* an entry that is skipped
C20_Destination(e) ==
    LET root == C20_Root(e.name)
        known == {t \in DOMAIN path_map : StartsWith(root, t \o <<".">>)}
    IN IF root \in DOMAIN path_map
       THEN PathComponents(adjust_path(path_map[root], current_home))
              \o PathComponents(C20_Remainder(e.name))
       ELSE IF known # {}
       THEN PathComponents(adjust_path(path_map[CHOOSE t \in known : TRUE], current_home))
       ELSE <<>>

\* the entries that pass the selection filter
C20_Selected(k) ==
    /\ src[k].name # ManifestName
    /\ selected.some => src[k].name \in to_extract

\* C20: every non-manifest entry that passes the selection filter is written
\* to adjust_path(original folder) joined with its relative remainder when its
\* root component is a token, to adjust_path(original file) when its root is
\* "<token>.<ext>", and is skipped otherwise; nothing but a failing I/O
\* operation makes the run return Err, and a run that returns Ok has written
\* every recognized entry, foreign entries or not.
C20_ExtractionDispatch ==
    (RestoreStarted /\ rresult # Err(InvalidFingerprint)) =>
        /\ \A w \in 1..Len(writes) :
              PathComponents(writes[w].dst) = C20_Destination(writes[w])
        /\ rpc = "err" => fault
        /\ rpc = "done" =>
              /\ rresult = Ok
              /\ \A k \in 1..Len(src) :
                    (C20_Selected(k) /\ C20_Destination(src[k]) # <<>>) <=>
                        \E w \in 1..Len(writes) : writes[w].name = src[k].name

\* the map {t_i -> p_i} of the tokens drawn for the inputs to the inputs' paths
C21_Expected == [u \in {Uuid(i) : i \in 1..Len(inputs)} |->
                    Candidates[inputs[CHOOSE i \in 1..Len(inputs) : Uuid(i) = u]].path]

C22_Files ==
    UNION {LET c == Candidates[inputs[i]]
           IN IF c.kind = "file" THEN {<<i, <<>>>>}
              ELSE IF c.kind = "dir" THEN {<<i, n.rel>> : n \in {x \in c.sub : x.kind = "file"}}
              ELSE {} : i \in 1..Len(inputs)}

\* C22: from the first entry on, total_files is the number of regular files
\* at or below the inputs, directories not counted, and at least 1; a backup
\* of nothing but directories that hold no file ends with 101 as the only
\* value ever stored in its Progress.
C22_ProgressDenominator ==
    (archive # <<>> /\ rpc = "idle") =>
        /\ total_files >= 1
        /\ total_files = (IF C22_Files = {} THEN 1 ELSE Cardinality(C22_Files))
        /\ (/\ bpc = "done"
            /\ C22_Files = {}
            /\ \A i \in 1..Len(inputs) : Candidates[inputs[i]].kind = "dir") =>
               /\ stores.backup = <<101>>
               /\ progress.backup = 101

C22_Witness ==
    /\ bpc = "done"
    /\ inputs = <<1>>
    /\ total_files = 1
    /\ Len(archive) = 2
    /\ stores.backup = <<101>>

\* C30: when backup_gui has returned Ok, every token of the manifest leads at
\* least one payload entry of the archive.
C30_ManifestComplete ==
    (bpc = "done" /\ rpc = "idle") =>
        LET m == WrittenManifest
            lead == Leads
        IN \A t \in DOMAIN m : EntriesOf(lead, t) # {}

\* C28: an installed Progress handle leads to 101 being stored in its cell and
\* to the handle being cleared, whatever the outcome of the operation; and a
\* handle is cleared only when its cell holds a value above 100.
C28_ProgressLiveness ==
    /\ backup_progress ~> (progress.backup = 101)
    /\ backup_progress ~> ~backup_progress
    /\ restore_progress ~> (progress.restore = 101)
    /\ restore_progress ~> ~restore_progress
    /\ [][/\ (backup_progress /\ ~backup_progress') => progress.backup > 100
          /\ (restore_progress /\ ~restore_progress') => progress.restore > 100]_vars

\* the node at p stands for a regular file (or a link to one) of the inputs
C23_FileNode(p) ==
    /\ Len(p) >= 2
    /\ \E i \in 1..Len(inputs) :
          LET c == Candidates[inputs[i]]
          IN /\ p[1] = Parent(c.path)
             /\ p[2] = FileName(c.path)
             /\ IF Len(p) = 2 THEN is_file(c)
                ELSE \E n \in c.sub : n.rel = SubSeq(p, 3, Len(p)) /\ n.kind = "file"

\* C23: in the tree build_human_tree returns for an archive backup_gui wrote,
\* every node without children has is_file = TRUE, and is_file is TRUE only
\* at the final segment of a file entry: never at a top-level folder, at an
\* intermediate segment or at a directory entry.
C23_TreeLeafInvariant ==
    (rpc = "preview" /\ src = archive) =>
        \A p \in DOMAIN tree :
           /\ Children(tree, p) = {} => tree[p].is_file
           /\ tree[p].is_file => C23_FileNode(p)

\* some childless node below the node at p is checked
C24_LeafBelow(t, p) ==
    \E q \in DOMAIN t : /\ q # p
                         /\ IsPrefixSeq(p, q)
                         /\ Children(t, q) = {}
                         /\ t[q].checked

\* build_human_tree leaves every checked field as FolderTreeNode::default made it
C24_BuiltUnchecked ==
    (restore_msg # <<>> /\ restore_msg[1] = "Ok") =>
        \A p \in DOMAIN restore_msg[2] : ~restore_msg[2][p].checked

\* C24: on the selection screen, after any sequence of frames of render_tree,
\* every node that has children is checked exactly when a childless node below
\* it is checked; build_human_tree writes no checked field.
C24_DerivedChecked ==
    /\ restore_editor =>
          \A p \in DOMAIN tree :
             Children(tree, p) # {} => (tree[p].checked <=> C24_LeafBelow(tree, p))
    /\ C24_BuiltUnchecked

\* C24 as amended: the same for every node that has children except the
\* root, which render_tree never draws and which stays as check_all left it.
C24_DerivedCheckedBelowRoot ==
    /\ restore_editor =>
          \A p \in Inner(tree) : tree[p].checked <=> C24_LeafBelow(tree, p)
    /\ C24_BuiltUnchecked

C24_Witness ==
    /\ restore_editor
    /\ inputs = <<5>>
    /\ src = archive
    /\ ~tree[<<OldHome, <<"F">>, <<"s">>, <<"b", ".", "t">>>>].checked
    /\ ~tree[<<OldHome, <<"F">>, <<"s">>>>].checked
    /\ tree[<<OldHome, <<"F">>, <<"a", ".", "t">>>>].checked
    /\ tree[<<OldHome, <<"F">>>>].checked

\* C25: on the selection screen collect_paths yields exactly the human paths
\* of the checked childless nodes of the tree.
C25_SelectionSet ==
    (restore_editor /\ src = archive) =>
        collect_paths(tree) =
            {HumanPath(p) : p \in {q \in DOMAIN tree : /\ q # <<>>
                                                        /\ Children(tree, q) = {}
                                                        /\ tree[q].checked}}

\* C27: for an archive backup_gui wrote, the extraction loop passes over the
\* same entries when the selection is collect_paths of the tree with every
\* node checked as when there is no selection.
C27_SelectAllIsAll ==
    (rpc = "preview" /\ src = archive) =>
        LET m == RestorePathMap(src)
            all == Some(collect_paths(tree))
            x == ToExtract(all.paths, m)
        IN \A k \in 1..Len(src) :
              Skipped(src[k], all, x, m) <=> Skipped(src[k], None, {}, m)

\* C29: when the preview's result has been received and no selection screen
\* is waiting for the user, restore_opening is reset: the GUI does not stay
\* in the "Opening archive" state with no preview thread outstanding.
C29_OpeningIndicator ==
    (restore_opening /\ restore_rx = "None" /\ ~restore_editor) ~> ~restore_opening

\* C26: selected_folders is sorted and holds no path twice, after paths have
\* arrived from a dialog and after a template has been loaded.
C26_SortedNoDuplicates ==
    \A i \in 1..(Len(selected_folders) - 1) :
       PathRank(selected_folders[i]) < PathRank(selected_folders[i + 1])

====
